---- MODULE Spec2Model ----
(***************************************************************************)
(* PersonalKnowledgeRAG (src/app.py): the profile / interaction            *)
(* bookkeeping of class PersonalKnowledgeRAG, its use of the vector        *)
(* collection, and the button handlers of the Streamlit script main().     *)
(*                                                                         *)
(* Strings that the program concatenates (queries, the enhanced query,     *)
(* the response) are sequences of pieces; concatenation is \o and the      *)
(* empty string is <<>>.  Strings that are only compared or used as keys   *)
(* (user ids, document contents, levels, styles) are TLA+ strings.         *)
(***************************************************************************)
EXTENDS Integers, Sequences, FiniteSets, TLC

VARIABLES user_profiles, interaction_history, collection, now, call, ui

vars == <<user_profiles, interaction_history, collection, now, call, ui>>

(***************************************************************************)
(* Bounds                                                                  *)
(***************************************************************************)
MaxHistory == 2

MaxStoreHistory == 1

MaxUIHistory == 1

(***************************************************************************)
(* Python dictionaries                                                     *)
(***************************************************************************)
EmptyDict == [k \in {} |-> ""]

DictGet(d, k, default) == IF k \in DOMAIN d THEN d[k] ELSE default

DictSet(d, k, v) == [x \in DOMAIN d \cup {k} |-> IF x = k THEN v ELSE d[x]]

\* Truth value of a Python str: an atomic string, a string of pieces.
TruthyStr(s) == s # ""

TruthyText(t) == t # <<>>

(***************************************************************************)
(* Input values                                                            *)
(***************************************************************************)
SampleAI == "Artificial Intelligence (AI) is a branch of computer science that aims to create intelligent machines capable of performing tasks that typically require human intelligence."

SampleML == "Machine Learning algorithms can be categorized into supervised, unsupervised, and reinforcement learning approaches, each with specific use cases and implementation strategies."

SampleDL == "Advanced neural network architectures like Transformers have revolutionized natural language processing through attention mechanisms and parallel processing capabilities."

ExtraDoc == "Retrieval-Augmented Generation grounds answers in retrieved text."

sample_docs ==
  << [content |-> SampleAI, metadata |-> [topic |-> "AI basics", difficulty |-> "beginner"]],
     [content |-> SampleML, metadata |-> [topic |-> "Machine Learning", difficulty |-> "intermediate"]],
     [content |-> SampleDL, metadata |-> [topic |-> "Deep Learning", difficulty |-> "expert"]] >>

WhatIsAI == <<"What is AI?">>

(***************************************************************************)
(* hashlib.md5(content.encode()).hexdigest(), tabulated on the contents    *)
(* used here.                                                              *)
(***************************************************************************)
md5_hexdigest(content) ==
  CASE content = SampleAI -> "7a55aeb170ff951de2cdcfb1b6bca55c"
    [] content = SampleML -> "4546a3125829dffc720619190c75c5f0"
    [] content = SampleDL -> "fec3631cda03b0542d02dd34f37f61f0"
    [] content = ExtraDoc -> "46ba857aae809bb2dac07e7773df119e"
    [] content = ""       -> "d41d8cd98f00b204e9800998ecf8427e"

(***************************************************************************)
(* The vector collection (chromadb), an external collaborator.  It maps    *)
(* an id to a stored document.  Adding under an id that is already present *)
(* either replaces the stored record or leaves it, depending on the        *)
(* library; querying returns the nearest min(n_results, size) documents    *)
(* in an order the library chooses.                                        *)
(***************************************************************************)
collection_add(col, content, metadata, id) ==
  LET stored == [document |-> content, metadata |-> metadata]
  IN  IF id \in DOMAIN col
        THEN {DictSet(col, id, stored), col}
        ELSE {DictSet(col, id, stored)}

Min(a, b) == IF a < b THEN a ELSE b

collection_query(col, query_text, n_results) ==
  LET n == Min(n_results, Cardinality(DOMAIN col))
      picks == {f \in [1..n -> DOMAIN col] : \A i, j \in 1..n : i # j => f[i] # f[j]}
  IN  {[documents |-> << [i \in 1..n |-> col[f[i]].document] >>] : f \in picks}

(***************************************************************************)
(* class PersonalKnowledgeRAG                                              *)
(***************************************************************************)
\* Variant: ids handed out by position in the store.
add_document_id_seq(content, metadata, col) == ToString(Cardinality(DOMAIN col))

add_document_id(content, metadata, col) == md5_hexdigest(content)

\* Variant: an existing profile keeps its interaction_count.
create_user_profile_keep_count(profiles, user_id, preferences) ==
  DictSet(profiles, user_id,
          [preferences       |-> preferences,
           interaction_count |-> IF user_id \in DOMAIN profiles
                                   THEN profiles[user_id].interaction_count
                                   ELSE 0,
           topics_of_interest |-> <<>>,
           response_style    |-> DictGet(preferences, "style", "professional"),
           expertise_level   |-> DictGet(preferences, "level", "intermediate")])

\* Variant: self.user_profiles = {user_id: {...}}.
create_user_profile_replace_all(profiles, user_id, preferences) ==
  DictSet(EmptyDict, user_id,
          [preferences       |-> preferences,
           interaction_count |-> 0,
           topics_of_interest |-> <<>>,
           response_style    |-> DictGet(preferences, "style", "professional"),
           expertise_level   |-> DictGet(preferences, "level", "intermediate")])

create_user_profile(profiles, user_id, preferences) ==
  DictSet(profiles, user_id,
          [preferences       |-> preferences,
           interaction_count |-> 0,
           topics_of_interest |-> <<>>,
           response_style    |-> DictGet(preferences, "style", "professional"),
           expertise_level   |-> DictGet(preferences, "level", "intermediate")])

\* Variant: the interaction of an unknown user is logged all the same.
update_user_interaction_log_unknown(profiles, history, user_id, query, response, timestamp) ==
  [profiles |-> IF user_id \in DOMAIN profiles
                  THEN [profiles EXCEPT ![user_id].interaction_count = @ + 1]
                  ELSE profiles,
   history  |-> Append(history, [user_id   |-> user_id,
                                 timestamp |-> timestamp,
                                 query     |-> query,
                                 response  |-> response]),
   raised   |-> "None",
   recorded |-> TRUE]

\* Variant: no membership test, so the subscript raises for an unknown user.
update_user_interaction_unguarded(profiles, history, user_id, query, response, timestamp) ==
  IF user_id \in DOMAIN profiles
    THEN [profiles |-> [profiles EXCEPT ![user_id].interaction_count = @ + 1],
          history  |-> Append(history, [user_id   |-> user_id,
                                        timestamp |-> timestamp,
                                        query     |-> query,
                                        response  |-> response]),
          raised   |-> "None",
          recorded |-> TRUE]
    ELSE [profiles |-> profiles, history |-> history,
          raised   |-> "KeyError", recorded |-> FALSE]

\* Result of update_user_interaction: the new profiles and history, and
\* whether datetime.now() was read.
update_user_interaction(profiles, history, user_id, query, response, timestamp) ==
  IF user_id \in DOMAIN profiles
    THEN [profiles |-> [profiles EXCEPT ![user_id].interaction_count = @ + 1],
          history  |-> Append(history, [user_id   |-> user_id,
                                        timestamp |-> timestamp,
                                        query     |-> query,
                                        response  |-> response]),
          raised   |-> "None",
          recorded |-> TRUE]
    ELSE [profiles |-> profiles, history |-> history,
          raised   |-> "None", recorded |-> FALSE]

\* Variant: if / else in place of if / elif / else.
enhanced_query_no_elif(query, expertise_level) ==
  IF expertise_level = "beginner"
    THEN <<"basic introduction", " ">> \o query \o <<" ", "simple explanation">>
    ELSE <<"advanced technical", " ">> \o query \o <<" ", "detailed analysis">>

enhanced_query(query, expertise_level) ==
  IF expertise_level = "beginner"
    THEN <<"basic introduction", " ">> \o query \o <<" ", "simple explanation">>
    ELSE IF expertise_level = "expert"
      THEN <<"advanced technical", " ">> \o query \o <<" ", "detailed analysis">>
      ELSE query

DefaultNResults == 3

\* What personalized_retrieval sends to the collection.
retrieval_query(profiles, query, user_id) ==
  LET user_profile == DictGet(profiles, user_id, EmptyDict)
      expertise_level == DictGet(user_profile, "expertise_level", "intermediate")
  IN  enhanced_query(query, expertise_level)

personalized_retrieval(profiles, col, query, user_id, n_results) ==
  collection_query(col, retrieval_query(profiles, query, user_id), n_results)

\* Variant: the profile is not consulted.
generate_personalized_response_defaults(profiles, query, user_id, retrieved_docs) ==
  <<"Based on your ", "intermediate", " level and ", "professional",
    " preference, here's a personalized answer to '">>
  \o query
  \o <<"': [Generated response using retrieved context and user preferences]">>

\* The prompt assembled on lines 80-110 is never used and is left out.
generate_personalized_response(profiles, query, user_id, retrieved_docs) ==
  LET user_profile == DictGet(profiles, user_id, EmptyDict)
      response_style == DictGet(user_profile, "response_style", "professional")
      expertise_level == DictGet(user_profile, "expertise_level", "intermediate")
  IN  <<"Based on your ", expertise_level, " level and ", response_style,
        " preference, here's a personalized answer to '">>
      \o query
      \o <<"': [Generated response using retrieved context and user preferences]">>

\* Variant: the list of result lists is taken for the result list.
retrieved_docs_outer(retrieval_results) == retrieval_results.documents

\* retrieval_results['documents'][0] if retrieval_results['documents'] else []
retrieved_docs_of(retrieval_results) ==
  IF retrieval_results.documents # <<>>
    THEN retrieval_results.documents[1]
    ELSE <<>>

\* get_personalized_answer for one outcome of the retrieval.
get_personalized_answer(profiles, history, query, user_id, retrieval_results, timestamp) ==
  LET retrieved_docs == retrieved_docs_of(retrieval_results)
      response == generate_personalized_response(profiles, query, user_id, retrieved_docs)
      upd == update_user_interaction(profiles, history, user_id, query, response, timestamp)
  IN  [profiles |-> upd.profiles,
       history  |-> upd.history,
       recorded |-> upd.recorded,
       raised   |-> upd.raised,
       ret      |-> [response |-> response,
                     retrieved_docs |-> Len(retrieved_docs),
                     personalization_applied |-> TRUE,
                     user_profile |-> DictGet(upd.profiles, user_id, EmptyDict)]]

(***************************************************************************)
(* Initial state: PersonalKnowledgeRAG.__init__                            *)
(***************************************************************************)
NoCall == [op |-> "__init__"]

NoUI == [event |-> "none"]

Init ==
  /\ user_profiles = EmptyDict
  /\ interaction_history = <<>>
  /\ collection = EmptyDict
  /\ now = 0
  /\ call = NoCall
  /\ ui = NoUI

(***************************************************************************)
(* Method calls                                                            *)
(***************************************************************************)
AddDocument(content, metadata) ==
  /\ \E col \in collection_add(collection, content, metadata,
                               add_document_id(content, metadata, collection)) :
       collection' = col
  /\ call' = [op |-> "add_document", content |-> content, metadata |-> metadata,
              ret |-> add_document_id(content, metadata, collection)]
  /\ UNCHANGED <<user_profiles, interaction_history, now, ui>>

CreateUserProfile(user_id, preferences) ==
  /\ user_profiles' = create_user_profile(user_profiles, user_id, preferences)
  /\ call' = [op |-> "create_user_profile", user_id |-> user_id,
              preferences |-> preferences]
  /\ UNCHANGED <<interaction_history, collection, now, ui>>

UpdateUserInteraction(user_id, query, response) ==
  LET upd == update_user_interaction(user_profiles, interaction_history,
                                     user_id, query, response, now + 1)
  IN  /\ user_profiles' = upd.profiles
      /\ interaction_history' = upd.history
      /\ now' = IF upd.recorded THEN now + 1 ELSE now
      /\ call' = [op |-> "update_user_interaction", user_id |-> user_id,
                  query |-> query, response |-> response, raised |-> upd.raised]
      /\ UNCHANGED <<collection, ui>>

PersonalizedRetrieval(query, user_id) ==
  /\ \E results \in personalized_retrieval(user_profiles, collection, query,
                                           user_id, DefaultNResults) :
       call' = [op |-> "personalized_retrieval", query |-> query,
                user_id |-> user_id, n_results |-> DefaultNResults,
                sent |-> retrieval_query(user_profiles, query, user_id),
                ret |-> results]
  /\ UNCHANGED <<user_profiles, interaction_history, collection, now, ui>>

GetPersonalizedAnswer(query, user_id) ==
  \E results \in personalized_retrieval(user_profiles, collection, query,
                                        user_id, DefaultNResults) :
    LET out == get_personalized_answer(user_profiles, interaction_history,
                                       query, user_id, results, now + 1)
    IN  /\ user_profiles' = out.profiles
        /\ interaction_history' = out.history
        /\ now' = IF out.recorded THEN now + 1 ELSE now
        /\ call' = [op |-> "get_personalized_answer", query |-> query,
                    user_id |-> user_id, raised |-> out.raised, ret |-> out.ret]
        /\ UNCHANGED <<collection, ui>>

(***************************************************************************)
(* Spec: the methods of one PersonalKnowledgeRAG object called in any      *)
(* order.                                                                  *)
(***************************************************************************)
UserIds == {"user_001", "user_002"}

Queries == {<<"X">>, WhatIsAI}

Responses == {<<"ok">>}

PreferenceSet ==
  { EmptyDict,
    [level |-> "beginner", style |-> "casual"],
    [level |-> "expert"] }

DocInputs == {sample_docs[1]}

HistoryRoom == Len(interaction_history) < MaxHistory

Next ==
  \/ \E d \in DocInputs : AddDocument(d.content, d.metadata)
  \/ \E u \in UserIds, p \in PreferenceSet : CreateUserProfile(u, p)
  \/ \E u \in UserIds, q \in Queries, r \in Responses :
       (HistoryRoom \/ u \notin DOMAIN user_profiles) /\ UpdateUserInteraction(u, q, r)
  \/ \E u \in UserIds, q \in Queries :
       (HistoryRoom \/ u \notin DOMAIN user_profiles) /\ GetPersonalizedAnswer(q, u)

Spec == Init /\ [][Next]_vars

(***************************************************************************)
(* SpecStore: the document store and retrieval, with every shape of        *)
(* expertise level.                                                        *)
(***************************************************************************)
StoreUserIds == {"user_001"}

StoreQueries == {<<>>, <<"X">>, WhatIsAI}

StorePreferenceSet ==
  { EmptyDict,
    [level |-> "beginner", style |-> "casual"],
    [level |-> "intermediate", style |-> "technical"],
    [level |-> "expert", style |-> "creative"],
    [level |-> "guru", style |-> "poetic"] }

StoreDocInputs ==
  { sample_docs[1], sample_docs[2], sample_docs[3],
    [content |-> ExtraDoc, metadata |-> [topic |-> "RAG", difficulty |-> "expert"]],
    [content |-> SampleAI, metadata |-> [topic |-> "RAG", difficulty |-> "expert"]] }

StoreHistoryRoom == Len(interaction_history) < MaxStoreHistory

NextStore ==
  \/ \E d \in StoreDocInputs : AddDocument(d.content, d.metadata)
  \/ \E u \in StoreUserIds, p \in StorePreferenceSet : CreateUserProfile(u, p)
  \/ \E u \in StoreUserIds, q \in StoreQueries : PersonalizedRetrieval(q, u)
  \/ \E u \in StoreUserIds :
       (StoreHistoryRoom \/ u \notin DOMAIN user_profiles) /\ GetPersonalizedAnswer(WhatIsAI, u)

SpecStore == Init /\ [][NextStore]_vars

(***************************************************************************)
(* main(): one step is one run of the Streamlit script, with at most one   *)
(* button pressed.  st.session_state.rag_system is the object above.       *)
(***************************************************************************)
\* for doc in sample_docs: rag_system.add_document(...)
RECURSIVE add_sample_docs(_, _)
add_sample_docs(col, i) ==
  IF i > Len(sample_docs)
    THEN {col}
    ELSE UNION { add_sample_docs(c, i + 1) :
                 c \in collection_add(col, sample_docs[i].content, sample_docs[i].metadata,
                                      add_document_id(sample_docs[i].content,
                                                      sample_docs[i].metadata, col)) }

SampleCalls == [i \in 1..Len(sample_docs) |-> "add_document"]

LastSampleCall ==
  LET d == sample_docs[Len(sample_docs)]
  IN  [op |-> "add_document", content |-> d.content, metadata |-> d.metadata,
       ret |-> md5_hexdigest(d.content)]

\* if query and user_id:
ask_inputs_either(query, user_id) == TruthyText(query) \/ TruthyStr(user_id)

ask_inputs_valid(query, user_id) == TruthyText(query) /\ TruthyStr(user_id)

\* if new_content and topic:
document_inputs_valid(new_content, topic) == TruthyStr(new_content) /\ TruthyStr(topic)

\* A button can be pressed only on a page that an earlier run has drawn.
Rendered == ui.event # "none"

\* A run with no button pressed.
UIRerun ==
  /\ \E col \in add_sample_docs(collection, 1) : collection' = col
  /\ call' = LastSampleCall
  /\ ui' = [event |-> "rerun", inputs |-> EmptyDict, calls |-> SampleCalls,
            messages |-> <<>>]
  /\ UNCHANGED <<user_profiles, interaction_history, now>>

\* st.sidebar.button("Create/Update Profile")
UICreateProfile(user_id, expertise_level, response_style) ==
  LET preferences == [level |-> expertise_level, style |-> response_style]
  IN  /\ Rendered
      /\ \E col \in add_sample_docs(collection, 1) : collection' = col
      /\ user_profiles' = create_user_profile(user_profiles, user_id, preferences)
      /\ call' = [op |-> "create_user_profile", user_id |-> user_id,
                  preferences |-> preferences]
      /\ ui' = [event |-> "Create/Update Profile",
                inputs |-> [user_id |-> user_id, level |-> expertise_level,
                            style |-> response_style],
                calls |-> Append(SampleCalls, "create_user_profile"),
                messages |-> <<[kind |-> "success", text |-> "Profile updated!"]>>]
      /\ UNCHANGED <<interaction_history, now>>

\* st.button("Get Personalized Answer")
UIGetAnswer(query, user_id) ==
  \E col \in add_sample_docs(collection, 1) :
    /\ Rendered
    /\ collection' = col
    /\ IF ask_inputs_valid(query, user_id)
         THEN \E results \in personalized_retrieval(user_profiles, col, query,
                                                    user_id, DefaultNResults) :
                LET out == get_personalized_answer(user_profiles, interaction_history,
                                                   query, user_id, results, now + 1)
                IN  /\ user_profiles' = out.profiles
                    /\ interaction_history' = out.history
                    /\ now' = IF out.recorded THEN now + 1 ELSE now
                    /\ call' = [op |-> "get_personalized_answer", query |-> query,
                                user_id |-> user_id, raised |-> out.raised,
                                ret |-> out.ret]
                    /\ ui' = [event |-> "Get Personalized Answer",
                              inputs |-> [query |-> query, user_id |-> user_id],
                              calls |-> Append(SampleCalls, "get_personalized_answer"),
                              messages |->
                                <<[kind |-> "success", text |-> "Response Generated!"],
                                  [kind |-> "write", text |-> out.ret.response],
                                  [kind |-> "info", text |-> out.ret.retrieved_docs]>>]
         ELSE /\ call' = LastSampleCall
              /\ ui' = [event |-> "Get Personalized Answer",
                              inputs |-> [query |-> query, user_id |-> user_id],
                        calls |-> SampleCalls,
                        messages |-> <<[kind |-> "error",
                                        text |-> "Please enter a question and user ID"]>>]
              /\ UNCHANGED <<user_profiles, interaction_history, now>>

\* st.button("Add Document")
UIAddDocument(new_content, topic, difficulty) ==
  LET metadata == [topic |-> topic, difficulty |-> difficulty]
  IN  \E col \in add_sample_docs(collection, 1) :
        /\ Rendered
        /\ IF document_inputs_valid(new_content, topic)
             THEN /\ \E col2 \in collection_add(col, new_content, metadata,
                                    add_document_id(new_content, metadata, col)) :
                       collection' = col2
                  /\ call' = [op |-> "add_document", content |-> new_content,
                              metadata |-> metadata,
                              ret |-> add_document_id(new_content, metadata, col)]
                  /\ ui' = [event |-> "Add Document",
                              inputs |-> [new_content |-> new_content, topic |-> topic,
                                          difficulty |-> difficulty],
                            calls |-> Append(SampleCalls, "add_document"),
                            messages |-> <<[kind |-> "success",
                                            text |-> add_document_id(new_content, metadata, col)]>>]
             ELSE /\ collection' = col
                  /\ call' = LastSampleCall
                  /\ ui' = [event |-> "Add Document",
                              inputs |-> [new_content |-> new_content, topic |-> topic,
                                          difficulty |-> difficulty],
                            calls |-> SampleCalls,
                            messages |-> <<[kind |-> "error",
                                            text |-> "Please provide content and topic"]>>]
        /\ UNCHANGED <<user_profiles, interaction_history, now>>

UIUserIds == {"", "user_001"}

UIQueries == {<<>>, WhatIsAI}

UILevels == {"beginner", "expert"}

UIStyles == {"professional", "casual"}

UIContents == {"", ExtraDoc, SampleAI}

UITopics == {"", "RAG"}

UIDifficulties == {"beginner", "expert"}

UIHistoryRoom == Len(interaction_history) < MaxUIHistory

NextUI ==
  \/ UIRerun
  \/ \E u \in UIUserIds, l \in UILevels, s \in UIStyles : UICreateProfile(u, l, s)
  \/ \E u \in UIUserIds, q \in UIQueries :
       (UIHistoryRoom \/ u \notin DOMAIN user_profiles \/ u = "" \/ q = <<>>)
       /\ UIGetAnswer(q, u)
  \/ \E c \in UIContents, t \in UITopics, d \in UIDifficulties : UIAddDocument(c, t, d)

SpecUI == Init /\ [][NextUI]_vars

(***************************************************************************)
(* Properties                                                              *)
(***************************************************************************)
CountFor(history, user_id) ==
  Cardinality({i \in 1..Len(history) : history[i].user_id = user_id})

IsPrefix(s, t) == Len(s) <= Len(t) /\ SubSeq(t, 1, Len(s)) = s

Contains(s, sub) ==
  \E i \in 0..(Len(s) - Len(sub)) : SubSeq(s, i + 1, i + Len(sub)) = sub

OtherProfilesSame(user_id) ==
  \A v \in DOMAIN user_profiles \ {user_id} :
    v \in DOMAIN user_profiles' /\ user_profiles'[v] = user_profiles[v]

\* C1: for every user id present in user_profiles, the profile's
\* interaction_count equals the number of interaction_history entries
\* carrying that user id.
C1_CountMatchesHistory ==
  \A u \in DOMAIN user_profiles :
    user_profiles[u].interaction_count = CountFor(interaction_history, u)

\* C2: create_user_profile leaves the profile of user_id with the given
\* preferences and interaction_count 0 whatever was there before, and an
\* update_user_interaction for the same user right after it yields
\* interaction_count 1.
C2_CreateResetsCount ==
  [][ /\ call'.op = "create_user_profile" =>
           /\ call'.user_id \in DOMAIN user_profiles'
           /\ user_profiles'[call'.user_id].interaction_count = 0
           /\ user_profiles'[call'.user_id].preferences = call'.preferences
      /\ ( /\ call.op = "create_user_profile"
           /\ call'.op = "update_user_interaction"
           /\ call'.user_id = call.user_id )
         => user_profiles'[call'.user_id].interaction_count = 1 ]_vars

\* C2 witness: an update right after a re-creation of a profile that had
\* already counted an interaction.
C2_Witness ==
  /\ call.op = "update_user_interaction"
  /\ call.user_id \in DOMAIN user_profiles
  /\ user_profiles[call.user_id].interaction_count = 1
  /\ CountFor(interaction_history, call.user_id) = 2

\* C3: update_user_interaction for a user id without a profile changes
\* neither user_profiles nor interaction_history; for a known user id it
\* adds 1 to exactly that user's interaction_count and appends exactly one
\* entry with that user id, query and response.
C3_UpdateEffect ==
  [][ call'.op = "update_user_interaction" =>
        LET u == call'.user_id
        IN  IF u \notin DOMAIN user_profiles
              THEN /\ user_profiles' = user_profiles
                   /\ interaction_history' = interaction_history
              ELSE /\ DOMAIN user_profiles' = DOMAIN user_profiles
                   /\ user_profiles'[u] =
                        [user_profiles[u] EXCEPT !.interaction_count = @ + 1]
                   /\ OtherProfilesSame(u)
                   /\ Len(interaction_history') = Len(interaction_history) + 1
                   /\ IsPrefix(interaction_history, interaction_history')
                   /\ LET e == interaction_history'[Len(interaction_history')]
                      IN  /\ e.user_id = u
                          /\ e.query = call'.query
                          /\ e.response = call'.response ]_vars

\* C3 witness: an update for an unknown user, made after interactions of a
\* known user were logged.
C3_Witness ==
  /\ call.op = "update_user_interaction"
  /\ call.user_id \notin DOMAIN user_profiles
  /\ user_profiles # EmptyDict
  /\ interaction_history # <<>>

\* C4: get_personalized_answer for a user id without a profile does not
\* raise, answers with level "intermediate" and style "professional",
\* returns an empty user_profile and changes neither user_profiles nor
\* interaction_history.
C4_UnknownUserDefaults ==
  [][ (call'.op = "get_personalized_answer" /\ call'.user_id \notin DOMAIN user_profiles) =>
        /\ call'.raised = "None"
        /\ call'.ret.response =
             <<"Based on your ", "intermediate", " level and ", "professional",
               " preference, here's a personalized answer to '">>
             \o call'.query
             \o <<"': [Generated response using retrieved context and user preferences]">>
        /\ call'.ret.user_profile = EmptyDict
        /\ user_profiles' = user_profiles
        /\ interaction_history' = interaction_history ]_vars

\* C4 witness: an answer for an unknown user on an empty document store,
\* while another user has a profile.
C4_Witness ==
  /\ call.op = "get_personalized_answer"
  /\ call.user_id \notin DOMAIN user_profiles
  /\ user_profiles # EmptyDict
  /\ collection = EmptyDict

\* C5: get_personalized_answer right after create_user_profile for the same
\* user returns a response that names the profile's level, its style and
\* the query text; afterwards the user's interaction_count is 1 and
\* interaction_history has gained exactly one entry, whose response is the
\* returned string.
C5_EndToEnd ==
  [][ ( /\ call.op = "create_user_profile"
        /\ call'.op = "get_personalized_answer"
        /\ call'.user_id = call.user_id ) =>
        LET u == call'.user_id
            L == DictGet(call.preferences, "level", "intermediate")
            S == DictGet(call.preferences, "style", "professional")
            response == call'.ret.response
        IN  /\ Contains(response, <<L>>)
            /\ Contains(response, <<S>>)
            /\ Contains(response, call'.query)
            /\ response[2] = L
            /\ response[4] = S
            /\ user_profiles'[u].interaction_count = 1
            /\ Len(interaction_history') = Len(interaction_history) + 1
            /\ IsPrefix(interaction_history, interaction_history')
            /\ interaction_history'[Len(interaction_history')].response = response
            /\ interaction_history'[Len(interaction_history')].user_id = u ]_vars

\* C5 witness: the three sample documents are stored and a beginner /
\* casual user has asked "What is AI?" once.
C5_Witness ==
  /\ call.op = "get_personalized_answer"
  /\ call.query = WhatIsAI
  /\ call.ret.retrieved_docs = 3
  /\ call.ret.user_profile # EmptyDict
  /\ call.ret.user_profile.expertise_level = "beginner"
  /\ call.ret.user_profile.response_style = "casual"
  /\ call.ret.user_profile.interaction_count = 1
  /\ \A i \in 1..Len(sample_docs) :
       md5_hexdigest(sample_docs[i].content) \in DOMAIN collection

\* C6: the query personalized_retrieval sends to the collection is the
\* query wrapped in "basic introduction" / "simple explanation" for a
\* beginner, in "advanced technical" / "detailed analysis" for an expert,
\* and the query itself for intermediate, for any other level and for a
\* user without a profile.
C6_EnhancedQuery ==
  call.op = "personalized_retrieval" =>
    LET known == call.user_id \in DOMAIN user_profiles
        level == IF known THEN user_profiles[call.user_id].expertise_level ELSE "none"
    IN  /\ level = "beginner" =>
             /\ call.sent = <<"basic introduction", " ">> \o call.query
                              \o <<" ", "simple explanation">>
             /\ Contains(call.sent, <<"basic introduction">>)
             /\ Contains(call.sent, <<"simple explanation">>)
        /\ level = "expert" =>
             /\ call.sent = <<"advanced technical", " ">> \o call.query
                              \o <<" ", "detailed analysis">>
             /\ Contains(call.sent, <<"advanced technical">>)
             /\ Contains(call.sent, <<"detailed analysis">>)
        /\ level \notin {"beginner", "expert"} => call.sent = call.query

\* C6 witness: a retrieval for a user whose level is none of the three
\* known ones.
C6_Witness ==
  /\ call.op = "personalized_retrieval"
  /\ call.user_id \in DOMAIN user_profiles
  /\ user_profiles[call.user_id].expertise_level = "guru"
  /\ call.query = WhatIsAI
  /\ call.sent = WhatIsAI

\* C7: of two add_document calls in a row, the returned ids are equal
\* exactly when the contents are equal, whatever the metadata and the
\* contents of the store; the document is stored under the returned id.
C7_IdFromContent ==
  [][ /\ call'.op = "add_document" =>
           /\ call'.ret \in DOMAIN collection'
           /\ collection'[call'.ret].document = call'.content
      /\ (call.op = "add_document" /\ call'.op = "add_document") =>
           (call'.ret = call.ret <=> call'.content = call.content) ]_vars

\* C7 witness: a stored content is added again with other metadata, next to
\* three more documents.
C7_Witness ==
  /\ call.op = "add_document"
  /\ call.content = SampleAI
  /\ call.metadata.topic = "RAG"
  /\ Cardinality(DOMAIN collection) = 4
  /\ collection[call.ret].metadata.topic = "AI basics"

\* C8: a retrieval returns at most n_results contents, all of them stored,
\* and none on an empty store; get_personalized_answer does not raise and
\* reports at most 3 retrieved documents, 0 on an empty store.
C8_RetrievalBounded ==
  /\ call.op = "personalized_retrieval" =>
       LET docs == call.ret.documents[1]
       IN  /\ Len(call.ret.documents) = 1
           /\ Len(docs) <= call.n_results
           /\ \A i \in 1..Len(docs) :
                \E id \in DOMAIN collection : collection[id].document = docs[i]
           /\ collection = EmptyDict => docs = <<>>
  /\ call.op = "get_personalized_answer" =>
       /\ call.raised = "None"
       /\ call.ret.retrieved_docs <= DefaultNResults
       /\ call.ret.retrieved_docs <= Cardinality(DOMAIN collection)
       /\ collection = EmptyDict => call.ret.retrieved_docs = 0

\* C8 witness: an answer computed over a store of four documents reports
\* three of them.
C8_Witness ==
  /\ call.op = "get_personalized_answer"
  /\ Cardinality(DOMAIN collection) = 4
  /\ call.ret.retrieved_docs = 3

HasError == \E i \in 1..Len(ui.messages) : ui.messages[i].kind = "error"

Called(op) == \E i \in 1..Len(ui.calls) : ui.calls[i] = op

C10_AppendOnly ==
  [][ /\ IsPrefix(interaction_history, interaction_history')
      /\ DOMAIN user_profiles \subseteq DOMAIN user_profiles'
      /\ call'.op = "create_user_profile" =>
           /\ interaction_history' = interaction_history
           /\ OtherProfilesSame(call'.user_id) ]_vars

\* C10 witness: a profile is created while another user has logged
\* interactions.
C10_Witness ==
  /\ call.op = "create_user_profile"
  /\ interaction_history # <<>>
  /\ \E v \in DOMAIN user_profiles \ {call.user_id} :
       user_profiles[v].interaction_count > 0

====
